---------------------------- MODULE Spec2Model ----------------------------
(***************************************************************************)
(* AIQASpanExporter (src/README.md lines 147-626): the span buffer with    *)
(* its tracking set, the batcher and the flush / auto-flush / shutdown     *)
(* protocol, on the JavaScript event loop.                                 *)
(*                                                                         *)
(* Event loop.  A flush() invocation runs in atomic segments separated by  *)
(* its awaits: the call up to `await this.flushLock`, the segment from     *)
(* there to the first `await this.sendSpans(...)`, and one segment per     *)
(* completed send.  Continuations of settled promises are microtasks, run  *)
(* first-in first-out (variable microtasks); timer ticks and transport     *)
(* responses are macrotasks and run only when no microtask is pending.     *)
(* Calls made by the application (export, flush, shutdown) may come from   *)
(* any synchronous code and are enabled in every state.                    *)
(***************************************************************************)
EXTENDS Integers, Sequences, FiniteSets, TLC

(***************************************************************************)
(* Bounds of the model.                                                    *)
(***************************************************************************)
NumProcs == 2        \* flush() invocations that can be live at the same time
MaxRecs == 2         \* records carried by one export() call
MaxExports == 2      \* export() calls in one run
MaxFailures == 2     \* transport failures in one run

(***************************************************************************)
(* The two size limits of the exporter, the private fields of README.md    *)
(* 200-201.  The program sets them to 5 MiB and to 10000 spans; the model  *)
(* scales them down so that full buffers and multi-batch flushes occur     *)
(* within a few spans.                                                     *)
(***************************************************************************)
maxBatchSizeBytes == 2
maxBufferSpans == 2

Procs == 1..NumProcs

(***************************************************************************)
(* Attribute data and the redaction filter (README.md 276-375; the same    *)
(* functions are in src/tracing.ts 32-119).                                *)
(*                                                                         *)
(* A string is the tuple of its characters.  A JavaScript value is a       *)
(* record [tag, str, kids]: tag is one of null, false, true, zero, num,    *)
(* str, arr, obj; str holds the characters of a string; kids holds the     *)
(* items of an array or the entries of an object, each [k |-> key,         *)
(* v |-> value], in order (k is the empty string for an array item).       *)
(***************************************************************************)
UpperCase == <<"A","B","C","D","E","F","G","H","I","J","K","L","M",
               "N","O","P","Q","R","S","T","U","V","W","X","Y","Z">>
LowerCase == <<"a","b","c","d","e","f","g","h","i","j","k","l","m",
               "n","o","p","q","r","s","t","u","v","w","x","y","z">>

\* String.prototype.toLowerCase on the characters the model uses
toLowerCase(s) ==
    [i \in 1..Len(s) |->
        IF \E j \in 1..Len(UpperCase) : UpperCase[j] = s[i]
        THEN LowerCase[CHOOSE j \in 1..Len(UpperCase) : UpperCase[j] = s[i]]
        ELSE s[i]]

\* String.prototype.includes
includes(s, pattern) ==
    \E i \in 0..(Len(s) - Len(pattern)) : SubSeq(s, i + 1, i + Len(pattern)) = pattern

\* String.prototype.startsWith
startsWith(s, prefix) ==
    Len(s) >= Len(prefix) /\ SubSeq(s, 1, Len(prefix)) = prefix

\* String.prototype.split with a one-character separator: part is the
\* piece being read, parts the pieces closed so far
RECURSIVE SplitAt(_, _, _, _)
SplitAt(s, sep, parts, part) ==
    IF s = <<>> THEN Append(parts, part)
    ELSE IF Head(s) = sep THEN SplitAt(Tail(s), sep, Append(parts, part), <<>>)
    ELSE SplitAt(Tail(s), sep, parts, Append(part, Head(s)))

split(s, sep) == SplitAt(s, sep, <<>>, <<>>)

\* String.prototype.trim, for the blank as white space
RECURSIVE trimStart(_)
trimStart(s) == IF s # <<>> /\ Head(s) = " " THEN trimStart(Tail(s)) ELSE s

RECURSIVE trimEnd(_)
trimEnd(s) ==
    IF s # <<>> /\ s[Len(s)] = " " THEN trimEnd(SubSeq(s, 1, Len(s) - 1)) ELSE s

trim(s) == trimEnd(trimStart(s))

Null == [tag |-> "null", str |-> <<>>, kids |-> <<>>]
Str(chars) == [tag |-> "str", str |-> chars, kids |-> <<>>]
Obj(entries) == [tag |-> "obj", str |-> <<>>, kids |-> entries]
Arr(items) ==
    [tag |-> "arr", str |-> <<>>,
     kids |-> [i \in 1..Len(items) |-> [k |-> <<>>, v |-> items[i]]]]

\* the mask token '****'
Mask == Str(<<"*","*","*","*">>)

\* `!value`: null and undefined, false, 0 and the empty string
Falsy(value) ==
    \/ value.tag \in {"null", "false", "zero"}
    \/ value.tag = "str" /\ value.str = <<>>

\* the names of the filters (README.md 322-345)
RemovePasswords ==
    <<"R","e","m","o","v","e","P","a","s","s","w","o","r","d","s">>
RemoveJWT == <<"R","e","m","o","v","e","J","W","T">>
RemoveAuthHeaders ==
    <<"R","e","m","o","v","e","A","u","t","h","H","e","a","d","e","r","s">>
RemoveAPIKeys == <<"R","e","m","o","v","e","A","P","I","K","e","y","s">>

FilterNames == {RemovePasswords, RemoveJWT, RemoveAuthHeaders, RemoveAPIKeys}

(***************************************************************************)
(* getEnabledFilters (README.md 276-282).  env is the string               *)
(* process.env.AIQA_DATA_FILTERS, the empty string when the variable is    *)
(* not set: both are falsy and give the default list.  Any other string,   *)
(* a blank one included, is split at the commas; the pieces are trimmed    *)
(* and the empty ones are left out.                                        *)
(***************************************************************************)
getEnabledFilters(env) ==
    LET filtersEnv == IF env = <<>>
                      THEN RemovePasswords \o <<",", " ">> \o RemoveJWT
                      ELSE env
        pieces == split(filtersEnv, ",")
    IN  IF filtersEnv = <<>> THEN {}
        ELSE { trim(pieces[i]) : i \in 1..Len(pieces) } \ {<<>>}

\* isJWTToken (README.md 287-295)
isJWTToken(value) ==
    /\ value.tag = "str"
    /\ LET parts == split(value.str, ".")
       IN  /\ Len(parts) = 3
           /\ startsWith(value.str, <<"e","y","J">>)
           /\ \A i \in 1..Len(parts) : Len(parts[i]) > 0

apiKeyPrefixes ==
    { <<"s","k","-">>, <<"p","k","-">>, <<"A","K","I","A">>,
      <<"g","h","p","_">>, <<"g","h","o","_">>, <<"g","h","u","_">>,
      <<"g","h","s","_">>, <<"g","h","r","_">> }

\* isAPIKey (README.md 300-308)
isAPIKey(value) ==
    /\ value.tag = "str"
    /\ \E prefix \in apiKeyPrefixes : startsWith(trim(value.str), prefix)

apiKeyKeyPatterns ==
    { <<"a","p","i","_","k","e","y">>, <<"a","p","i","k","e","y">>,
      <<"a","p","i","-","k","e","y">> }

\* a filter whose mask is not stable: a masked value is masked differently
applyDataFiltersRemask(env, key, value) ==
    IF Falsy(value) THEN value
    ELSE IF includes(toLowerCase(key), <<"p","a","s","s","w","o","r","d">>)
    THEN (IF value = Mask THEN Str(<<"*">>) ELSE Mask)
    ELSE value

\* a filter that masks by key whatever the value is
applyDataFiltersNoFalsy(env, key, value) ==
    IF \/ /\ RemovePasswords \in getEnabledFilters(env)
          /\ includes(toLowerCase(key), <<"p","a","s","s","w","o","r","d">>)
       \/ /\ RemoveAuthHeaders \in getEnabledFilters(env)
          /\ toLowerCase(key) = <<"a","u","t","h","o","r","i","z","a","t","i","o","n">>
    THEN Mask
    ELSE value

\* applyDataFilters (README.md 313-351)
applyDataFilters(env, key, value) ==
    LET enabledFilters == getEnabledFilters(env)
        keyLower == toLowerCase(key)
    IN  IF Falsy(value) THEN value
        ELSE IF /\ RemovePasswords \in enabledFilters
                /\ includes(keyLower, <<"p","a","s","s","w","o","r","d">>)
        THEN Mask
        ELSE IF RemoveJWT \in enabledFilters /\ isJWTToken(value)
        THEN Mask
        ELSE IF /\ RemoveAuthHeaders \in enabledFilters
                /\ keyLower = <<"a","u","t","h","o","r","i","z","a","t","i","o","n">>
        THEN Mask
        ELSE IF /\ RemoveAPIKeys \in enabledFilters
                /\ \/ \E pattern \in apiKeyKeyPatterns : includes(keyLower, pattern)
                   \/ isAPIKey(value)
        THEN Mask
        ELSE value

\* filterDataRecursive (README.md 356-375)
RECURSIVE filterDataRecursive(_, _)
filterDataRecursive(env, data) ==
    IF data.tag = "null" THEN data
    ELSE IF data.tag = "arr"
    THEN [data EXCEPT !.kids =
             [i \in 1..Len(data.kids) |->
                 [k |-> data.kids[i].k,
                  v |-> filterDataRecursive(env, data.kids[i].v)]]]
    ELSE IF data.tag = "obj"
    THEN [data EXCEPT !.kids =
             [i \in 1..Len(data.kids) |->
                 [k |-> data.kids[i].k,
                  v |-> filterDataRecursive(env,
                            applyDataFilters(env, data.kids[i].k, data.kids[i].v))]]]
    ELSE applyDataFilters(env, <<>>, data)

\* an object that holds itself (o.self = o): the recursion of
\* filterDataRecursive into it does not end, and the engine throws RangeError
Cyclic == [tag |-> "cyclic", str |-> <<>>, kids |-> <<>>]

\* filterDataRecursive (README.md 356-375) throws: its recursion reaches an
\* object that holds itself.  A value that applyDataFilters replaces by the
\* mask is not entered.
RECURSIVE filterDataRecursiveThrows(_, _)
filterDataRecursiveThrows(env, data) ==
    IF data.tag = "cyclic" THEN TRUE
    ELSE IF data.tag \in {"arr", "obj"}
    THEN \E i \in 1..Len(data.kids) :
             filterDataRecursiveThrows(env,
                 IF data.tag = "arr" THEN data.kids[i].v
                 ELSE applyDataFilters(env, data.kids[i].k, data.kids[i].v))
    ELSE FALSE

\* the strings of the attribute data
KeyPassword == <<"p","a","s","s","w","o","r","d">>
KeyDbPassword == <<"d","b","P","a","s","s","W","o","r","d">>
KeyUser == <<"u","s","e","r">>
Secret == Str(<<"p","w">>)

(***************************************************************************)
(* The finished spans the tracer can hand to export().  A span is its      *)
(* identity (traceId, spanId), the byte length of its JSON form, and its   *)
(* four bags of attributes: its own, those of its links and events, and    *)
(* those of its resource.  The other fields of SerializableSpan are copied *)
(* and do not influence buffering.  The spans of ReadableSpans carry no    *)
(* attributes; SpanOf builds a span with the same data in all four bags.   *)
(***************************************************************************)
SpanOf(traceId, spanId, size, data) ==
    [traceId |-> traceId, spanId |-> spanId, size |-> size,
     attributes |-> data,
     links |-> <<[attributes |-> data]>>,
     events |-> <<[attributes |-> data]>>,
     resource |-> [attributes |-> data]]

\* a span without attributes, links or events
PlainSpan(traceId, spanId, size) ==
    [traceId |-> traceId, spanId |-> spanId, size |-> size,
     attributes |-> Obj(<<>>), links |-> <<>>, events |-> <<>>,
     resource |-> [attributes |-> Obj(<<>>)]]

ReadableSpans == { PlainSpan(1, 1, 1), PlainSpan(1, 2, 1), PlainSpan(2, 1, 2) }


SpanBatches == UNION { [1..n -> ReadableSpans] : n \in 0..MaxRecs }

\* the template string `${traceId}:${spanId}`: one key per pair of ids
spanKeyOf(span) == <<span.traceId, span.spanId>>

Keys == { spanKeyOf(s) : s \in ReadableSpans }

\* new Blob([JSON.stringify(span)]).size
spanSize(span) == span.size

VARIABLES
    serverUrl,             \* "" when the destination is not configured
    buffer,                \* this.buffer
    bufferSpanKeys,        \* this.bufferSpanKeys
    flushTimer,            \* TRUE while the interval timer is armed
    flushLock,             \* 0: a resolved promise; p: the lock created by flush p
    shutdownRequested,
    pc,                    \* per flush invocation: idle / await / sending / done
    kind,                  \* who called it: none / auto / flush / shutdown
    lockWaiters,           \* <<p, q>>: p awaits the unresolved lock of q, in await order
    microtasks,            \* continuations ready to run, first in first out
    batches,               \* per invocation: the result of splitIntoBatches
    drainedAt,             \* per invocation: export() calls made before its drain
    idx,                   \* per invocation: the loop index i, 1-based
    successfullySentSpans, \* per invocation
    errors,                \* per invocation: the failed batch numbers
    result,                \* per invocation: none / resolved / rejected
    lastAppend,            \* counters of the last addToBuffer call
    acceptCount,           \* per key: records accepted into the buffer so far
    successCount,          \* per key: entries in batches whose send succeeded
    exportCalls,           \* export() calls so far
    sendFailures,          \* failed sends so far
    timerRef,              \* TRUE while the interval timer keeps the process alive
    timerLog,              \* what became of a rejected flush in the timer callback
    acceptSeq,             \* per key: when its latest record was accepted (0: never)
    dropSeq,               \* per key: when its latest record was dropped (0: never)
    callbackLog,           \* the results export() has passed to resultCallback
    lastHanded,            \* acceptSeq of the entry handed to the transport last
    splitRun,              \* one run of the batcher on its own: input and result
    filterRun,             \* one run of the filter on its own: input and results
    traceRun,              \* one call of a function wrapped by withTracing
    scoreRun,              \* one call of scoreMetricJavascript
    filtersEnv             \* process.env.AIQA_DATA_FILTERS (<<>>: not set)

vars == <<serverUrl, buffer, bufferSpanKeys, flushTimer, flushLock,
          shutdownRequested, pc, kind, lockWaiters, microtasks, batches, idx,
          drainedAt, successfullySentSpans, errors, result, lastAppend, acceptCount,
          successCount, exportCalls, sendFailures, timerRef, timerLog,
          acceptSeq, dropSeq, callbackLog, lastHanded, splitRun, filterRun,
          traceRun, scoreRun, filtersEnv>>

procVars == <<batches, idx, drainedAt, successfullySentSpans, errors, result>>
histVars == <<lastAppend, acceptCount, successCount, exportCalls, sendFailures>>
\* what no step of the exporter's pipeline changes
fixedVars == <<timerRef, splitRun, filterRun, traceRun, scoreRun, filtersEnv>>

\* a serializer that copies the attributes as they are
serializeSpanUnfiltered(span) == span

\* serializeSpan (README.md 380-415): copies the identity and passes the four
\* bags of attributes through the filter; size stands for the byte length of
\* the serialized payload
serializeSpan(span) ==
    [traceId |-> span.traceId, spanId |-> span.spanId, size |-> span.size,
     attributes |-> filterDataRecursive(filtersEnv, span.attributes),
     links |-> [i \in 1..Len(span.links) |->
                  [attributes |->
                      filterDataRecursive(filtersEnv, span.links[i].attributes)]],
     events |-> [i \in 1..Len(span.events) |->
                   [attributes |->
                       filterDataRecursive(filtersEnv, span.events[i].attributes)]],
     resource |-> [attributes |->
                      filterDataRecursive(filtersEnv, span.resource.attributes)]]

\* serializeSpan throws: one of its four calls of filterDataRecursive does;
\* nothing between the filter and the caller of export() catches
serializeSpanThrows(span) ==
    \E data \in {span.attributes, span.resource.attributes}
                 \cup { span.links[i].attributes : i \in 1..Len(span.links) }
                 \cup { span.events[i].attributes : i \in 1..Len(span.events) } :
        filterDataRecursiveThrows(filtersEnv, data)

----------------------------------------------------------------------------
(***************************************************************************)
(* Helpers on sequences.                                                   *)
(***************************************************************************)
RECURSIVE Flatten(_)
Flatten(ss) == IF ss = <<>> THEN <<>> ELSE Head(ss) \o Flatten(Tail(ss))

SeqKeys(spans) == { spanKeyOf(spans[i]) : i \in 1..Len(spans) }

CountKey(spans, k) == Cardinality({ i \in 1..Len(spans) : spanKeyOf(spans[i]) = k })

SelectPairs(ws, q) == SelectSeq(ws, LAMBDA w : w[2] = q)
RejectPairs(ws, q) == SelectSeq(ws, LAMBDA w : w[2] # q)
FirstOfPairs(ws) == [i \in 1..Len(ws) |-> ws[i][1]]


----------------------------------------------------------------------------
(***************************************************************************)
(* addToBuffer (README.md 237-271).  The loop reads this.buffer.length,    *)
(* which does not change inside the loop: the accepted spans are collected *)
(* in serializedSpans and pushed after it.  The capacity test comes before *)
(* the duplicate test.                                                     *)
(***************************************************************************)
RECURSIVE AddLoop(_, _, _, _, _, _)
AddLoop(spans, buf, keys, serializedSpans, duplicatesCount, droppedCount) ==
    IF spans = <<>>
    THEN [buffer |-> buf \o serializedSpans,
          bufferSpanKeys |-> keys,
          added |-> Len(serializedSpans),
          duplicates |-> duplicatesCount,
          dropped |-> droppedCount,
          threw |-> FALSE]
    ELSE LET span == Head(spans)
             serialized == serializeSpan(span)
             spanKey == spanKeyOf(serialized)
         IN  IF Len(buf) >= maxBufferSpans
             THEN AddLoop(Tail(spans), buf, keys, serializedSpans,
                          duplicatesCount, droppedCount + 1)
             ELSE IF serializeSpanThrows(span)
             THEN [buffer |-> buf,
                   bufferSpanKeys |-> keys,
                   added |-> 0,
                   duplicates |-> duplicatesCount,
                   dropped |-> droppedCount,
                   threw |-> TRUE]
             ELSE IF spanKey \notin keys
             THEN AddLoop(Tail(spans), buf, keys \cup {spanKey},
                          Append(serializedSpans, serialized),
                          duplicatesCount, droppedCount)
             ELSE AddLoop(Tail(spans), buf, keys, serializedSpans,
                          duplicatesCount + 1, droppedCount)

\* the records of a call that the loop counts as dropped (README.md 244-247):
\* the test reads the length the buffer had before the call
droppedSpans(spans, bufLen) == SelectSeq(spans, LAMBDA span : bufLen >= maxBufferSpans)

addToBuffer(spans, buf, keys) == AddLoop(spans, buf, keys, <<>>, 0, 0)

\* a release that releases nothing
keepSpanKeys(keys, spans) == keys

(***************************************************************************)
(* removeSpanKeysFromTracking (README.md 420-425).                         *)
(***************************************************************************)
removeSpanKeysFromTracking(keys, spans) == keys \ SeqKeys(spans)

(***************************************************************************)
(* splitIntoBatches (README.md 514-564).                                   *)
(***************************************************************************)
RECURSIVE SplitLoop(_, _, _, _, _)
SplitLoop(spans, maxBytes, bs, currentBatch, currentBatchSize) ==
    IF spans = <<>>
    THEN IF Len(currentBatch) > 0 THEN Append(bs, currentBatch) ELSE bs
    ELSE LET span == Head(spans)
             sz == spanSize(span)
         IN  IF sz > maxBytes
             THEN SplitLoop(Tail(spans), maxBytes,
                            Append(IF Len(currentBatch) > 0
                                   THEN Append(bs, currentBatch) ELSE bs,
                                   <<span>>),
                            IF Len(currentBatch) > 0 THEN <<>> ELSE currentBatch,
                            IF Len(currentBatch) > 0 THEN 0 ELSE currentBatchSize)
             ELSE IF Len(currentBatch) > 0 /\ currentBatchSize + sz > maxBytes
             THEN SplitLoop(Tail(spans), maxBytes, Append(bs, currentBatch),
                            <<span>>, sz)
             ELSE SplitLoop(Tail(spans), maxBytes, bs,
                            Append(currentBatch, span), currentBatchSize + sz)

\* a batcher that leaves out the spans larger than the limit
splitDropOversized(spans, maxBytes) ==
    LET fitting == SelectSeq(spans, LAMBDA s : spanSize(s) <= maxBytes)
    IN  IF Len(fitting) = 0 THEN <<>> ELSE SplitLoop(fitting, maxBytes, <<>>, <<>>, 0)

\* a batcher that never closes a batch
splitOneBatch(spans, maxBytes) == IF Len(spans) = 0 THEN <<>> ELSE <<spans>>

\* a batcher that closes the batch after every span
splitSingletons(spans, maxBytes) == [i \in 1..Len(spans) |-> <<spans[i]>>]

\* a batcher that counts spans instead of bytes: maxBytes spans per batch
splitByCount(spans, maxBytes) ==
    [b \in 1..((Len(spans) + maxBytes - 1) \div maxBytes) |->
        SubSeq(spans, (b - 1) * maxBytes + 1,
               IF b * maxBytes < Len(spans) THEN b * maxBytes ELSE Len(spans))]

\* splitIntoBatches with this.maxBatchSizeBytes = maxBytes
splitIntoBatchesOf(spans, maxBytes) ==
    IF Len(spans) = 0 THEN <<>>
    ELSE SplitLoop(spans, maxBytes, <<>>, <<>>, 0)

splitIntoBatches(spans) == splitIntoBatchesOf(spans, maxBatchSizeBytes)

----------------------------------------------------------------------------
\* ExportResultCode.SUCCESS
SUCCESS == "SUCCESS"

TypeOK ==
    /\ serverUrl \in {"", "url"}
    /\ flushTimer \in BOOLEAN
    /\ shutdownRequested \in BOOLEAN
    /\ flushLock \in 0..NumProcs
    /\ pc \in [Procs -> {"idle", "await", "sending", "done"}]
    /\ kind \in [Procs -> {"none", "auto", "flush", "shutdown", "reshutdown"}]
    /\ timerRef \in BOOLEAN
    /\ timerLog \in {"none", "caught", "uncaught"}
    /\ lastHanded \in Nat
    /\ acceptSeq \in [Keys -> Nat]
    /\ dropSeq \in [Keys -> Nat]
    /\ callbackLog \in [1..Len(callbackLog) -> [code : {SUCCESS}, buffered : Nat]]
    /\ splitRun.done \in BOOLEAN
    /\ splitRun.maxBytes \in Nat
    /\ result \in [Procs -> {"none", "resolved", "rejected"}]
    /\ drainedAt \in [Procs -> Nat]
    /\ bufferSpanKeys \subseteq Keys

\* the handle setInterval returns to the exporter: a NodeJS.Timeout
\* (README.md 204), which has the method unref
Timeout == [unref |-> "function"]

(***************************************************************************)
(* startAutoFlush (README.md 592-610): arms the interval timer and, when   *)
(* the handle has a function unref (607), unrefs it, so that the timer     *)
(* alone does not keep the event loop running.  setInterval refs the timer *)
(* it creates: a handle without unref stays ref'd.                         *)
(***************************************************************************)
startAutoFlush(timer) ==
    [flushTimer |-> TRUE,
     timerRef |-> IF timer.unref = "function" THEN FALSE ELSE TRUE]

\* no run of the batcher on its own
NoSplitRun == [spans |-> <<>>, maxBytes |-> 0, batches |-> <<>>, done |-> FALSE]

(***************************************************************************)
(* The state after the constructor (README.md 208-217): empty buffer, a    *)
(* resolved flushLock, the interval timer armed by startAutoFlush.         *)
(***************************************************************************)
ExporterInit ==
    /\ serverUrl \in {"", "url"}
    /\ buffer = <<>>
    /\ bufferSpanKeys = {}
    /\ flushTimer = startAutoFlush(Timeout).flushTimer
    /\ timerRef = startAutoFlush(Timeout).timerRef
    /\ timerLog = "none"
    /\ acceptSeq = [k \in Keys |-> 0]
    /\ dropSeq = [k \in Keys |-> 0]
    /\ callbackLog = <<>>
    /\ lastHanded = 0
    /\ flushLock = 0
    /\ shutdownRequested = FALSE
    /\ pc = [p \in Procs |-> "idle"]
    /\ kind = [p \in Procs |-> "none"]
    /\ lockWaiters = <<>>
    /\ microtasks = <<>>
    /\ batches = [p \in Procs |-> <<>>]
    /\ drainedAt = [p \in Procs |-> 0]
    /\ idx = [p \in Procs |-> 0]
    /\ successfullySentSpans = [p \in Procs |-> <<>>]
    /\ errors = [p \in Procs |-> <<>>]
    /\ result = [p \in Procs |-> "none"]
    /\ lastAppend = [offered |-> 0, added |-> 0, duplicates |-> 0, dropped |-> 0,
                     threw |-> FALSE]
    /\ acceptCount = [k \in Keys |-> 0]
    /\ successCount = [k \in Keys |-> 0]
    /\ exportCalls = 0
    /\ sendFailures = 0

\* no run of the filter on its own
NoFilterRun == [data |-> Null, once |-> Null, twice |-> Null, done |-> FALSE]

\* no call of a traced function
NoTraceRun == [called |-> FALSE]
NoScoreRun == [called |-> FALSE]

Init ==
    /\ ExporterInit
    /\ splitRun = NoSplitRun
    /\ filterRun = NoFilterRun
    /\ traceRun = NoTraceRun
    /\ scoreRun = NoScoreRun
    /\ filtersEnv = <<>>

\* a callback that is called a second time with the same result
resultCallbackTwice(log, code, buffered) ==
    Append(Append(log, [code |-> code, buffered |-> buffered]),
           [code |-> code, buffered |-> buffered])

\* resultCallback({ code }) (README.md 221 and 226): export() calls it once on
\* either path.  The log keeps, with the result passed, how many entries
\* the buffer held when the callback ran.
resultCallback(log, code, buffered) ==
    Append(log, [code |-> code, buffered |-> buffered])

(***************************************************************************)
(* export (README.md 219-230): acknowledges, then addToBuffer: the         *)
(* callback runs on the buffer as it is before the call's records are      *)
(* appended.                                                               *)
(***************************************************************************)
export(spans) ==
    /\ exportCalls' = exportCalls + 1
    /\ callbackLog' = resultCallback(callbackLog, SUCCESS, Len(buffer))
    /\ IF Len(spans) = 0
       THEN UNCHANGED <<buffer, bufferSpanKeys, lastAppend, acceptCount, acceptSeq,
                        dropSeq>>
       ELSE LET r == addToBuffer(spans, buffer, bufferSpanKeys)
                added == SubSeq(r.buffer, Len(buffer) + 1, Len(r.buffer))
                dropped == droppedSpans(spans, Len(buffer))
            IN  /\ buffer' = r.buffer
                /\ dropSeq' =
                       [k \in Keys |->
                           IF k \in SeqKeys(dropped)
                           THEN exportCalls * MaxRecs +
                                (CHOOSE i \in 1..Len(spans) : spanKeyOf(spans[i]) = k)
                           ELSE dropSeq[k]]
                /\ bufferSpanKeys' = r.bufferSpanKeys
                /\ lastAppend' = [offered |-> Len(spans), added |-> r.added,
                                  duplicates |-> r.duplicates, dropped |-> r.dropped,
                                  threw |-> r.threw]
                /\ acceptCount' = [k \in Keys |-> acceptCount[k] + CountKey(added, k)]
                /\ acceptSeq' =
                       [k \in Keys |->
                           IF k \in SeqKeys(added)
                           THEN exportCalls * MaxRecs +
                                (CHOOSE i \in 1..Len(added) : spanKeyOf(added[i]) = k)
                           ELSE acceptSeq[k]]
    /\ UNCHANGED <<serverUrl, flushTimer, flushLock, shutdownRequested, pc, kind,
                   lockWaiters, microtasks, procVars, successCount, sendFailures,
                   timerLog, lastHanded, fixedVars>>

\* an export() that waits until no batch is with the transport
ExportWhenIdle(spans) ==
    /\ exportCalls < MaxExports
    /\ \A p \in DOMAIN pc : pc[p] # "sending"
    /\ export(spans)

\* export() as the application calls it, up to MaxExports times
Export(spans) == exportCalls < MaxExports /\ export(spans)

(***************************************************************************)
(* flush(), first segment (README.md 430-432): `await this.flushLock`.     *)
(* On a resolved lock the continuation is queued as a microtask; on a      *)
(* pending one the caller is registered as a waiter of that lock.          *)
(***************************************************************************)
IdleProcs == { p \in Procs : pc[p] = "idle" }
FreeProc == CHOOSE p \in IdleProcs : \A q \in IdleProcs : p <= q

EnterFlush(p, who) ==
    /\ pc' = [pc EXCEPT ![p] = "await"]
    /\ kind' = [kind EXCEPT ![p] = who]
    /\ IF flushLock = 0
       THEN /\ microtasks' = Append(microtasks, p)
            /\ UNCHANGED lockWaiters
       ELSE /\ lockWaiters' = Append(lockWaiters, <<p, flushLock>>)
            /\ UNCHANGED microtasks

\* an explicit flush() by the application (tracing.ts 186-191, flushSpans)
CallFlush ==
    /\ IdleProcs # {}
    /\ EnterFlush(FreeProc, "flush")
    /\ UNCHANGED <<serverUrl, buffer, bufferSpanKeys, flushTimer, flushLock,
                   shutdownRequested, procVars, histVars, timerLog, acceptSeq, dropSeq,
                   callbackLog,
                   lastHanded, fixedVars>>

\* no continuation is ready: the event loop may take a timer or an I/O event
MacrotaskTurn == microtasks = <<>>

\* the setInterval callback of startAutoFlush (README.md 597-603)
TimerTick ==
    /\ flushTimer
    /\ MacrotaskTurn
    /\ ~shutdownRequested
    /\ IdleProcs # {}
    /\ EnterFlush(FreeProc, "auto")
    /\ UNCHANGED <<serverUrl, buffer, bufferSpanKeys, flushTimer, flushLock,
                   shutdownRequested, procVars, histVars, timerLog, acceptSeq, dropSeq,
                   callbackLog,
                   lastHanded, fixedVars>>

\* a shutdown that leaves the interval timer armed
keepInterval(timer) == timer

\* `clearInterval(this.flushTimer); this.flushTimer = undefined`
\* (README.md 617-620): the timer is no longer armed
clearInterval(timer) == FALSE

\* shutdown (README.md 615-625): flag, clearInterval, then flush().  The
\* invocation is tagged "reshutdown" when shutdown() had been called before.
CallShutdown ==
    /\ IdleProcs # {}
    /\ shutdownRequested' = TRUE
    /\ flushTimer' = IF flushTimer THEN clearInterval(flushTimer) ELSE flushTimer
    /\ EnterFlush(FreeProc, IF shutdownRequested THEN "reshutdown" ELSE "shutdown")
    /\ UNCHANGED <<serverUrl, buffer, bufferSpanKeys, flushLock, procVars, histVars,
                   timerLog, acceptSeq, dropSeq,
                   callbackLog, lastHanded, fixedVars>>

(***************************************************************************)
(* The end of a flush() invocation p: the `finally` resolves the lock p    *)
(* created, which queues the continuations of its waiters; then the        *)
(* promise flush() returned settles, which queues its caller's reaction.   *)
(* `queue` is the microtask queue before these are added and `lock` the    *)
(* value of this.flushLock at that point (p while p's lock is still the    *)
(* current one).                                                           *)
\* an end of flush() that frees the lock and leaves its waiters waiting
ResolveFlushKeepWaiters(p, queue, outcome, lock) ==
    /\ pc' = [pc EXCEPT ![p] = "done"]
    /\ result' = [result EXCEPT ![p] = outcome]
    /\ flushLock' = IF lock = p THEN 0 ELSE lock
    /\ microtasks' = Append(queue, p)
    /\ lockWaiters' = lockWaiters

\* an end of flush() that leaves its lock in place
ResolveFlushKeepLock(p, queue, outcome, lock) ==
    /\ pc' = [pc EXCEPT ![p] = "done"]
    /\ result' = [result EXCEPT ![p] = outcome]
    /\ flushLock' = p
    /\ microtasks' = Append(queue, p)
    /\ lockWaiters' = lockWaiters

(***************************************************************************)
ResolveFlush(p, queue, outcome, lock) ==
    /\ pc' = [pc EXCEPT ![p] = "done"]
    /\ result' = [result EXCEPT ![p] = outcome]
    /\ flushLock' = IF lock = p THEN 0 ELSE lock
    /\ microtasks' = queue \o FirstOfPairs(SelectPairs(lockWaiters, p)) \o <<p>>
    /\ lockWaiters' = RejectPairs(lockWaiters, p)

\* when the last entry of a batch handed to sendSpans was accepted
lastRank(batch) == acceptSeq[spanKeyOf(batch[Len(batch)])]

(***************************************************************************)
(* flush(), second segment (README.md 434-471): runs when the awaited lock *)
(* has resolved.  Installs a new lock, drains the buffer, and either ends  *)
(* (nothing drained, or no server URL) or splits and starts the first      *)
(* send.                                                                   *)
(***************************************************************************)
Resume(p) ==
    /\ microtasks # <<>>
    /\ Head(microtasks) = p
    /\ pc[p] = "await"
    /\ LET spansToFlush == buffer
       IN  /\ buffer' = <<>>
           /\ IF Len(spansToFlush) = 0
              THEN /\ ResolveFlush(p, Tail(microtasks), "resolved", p)
                   /\ UNCHANGED <<bufferSpanKeys, batches, idx, drainedAt,
                                  successfullySentSpans, errors, lastHanded>>
              ELSE IF serverUrl = ""
              THEN /\ bufferSpanKeys' =
                          removeSpanKeysFromTracking(bufferSpanKeys, spansToFlush)
                   /\ ResolveFlush(p, Tail(microtasks), "resolved", p)
                   /\ UNCHANGED <<batches, idx, drainedAt, successfullySentSpans, errors,
                                  lastHanded>>
              ELSE /\ batches' = [batches EXCEPT ![p] = splitIntoBatches(spansToFlush)]
                   /\ idx' = [idx EXCEPT ![p] = 1]
                   /\ drainedAt' = [drainedAt EXCEPT ![p] = exportCalls]
                   /\ successfullySentSpans' =
                          [successfullySentSpans EXCEPT ![p] = <<>>]
                   /\ errors' = [errors EXCEPT ![p] = <<>>]
                   /\ pc' = [pc EXCEPT ![p] = "sending"]
                   /\ flushLock' = p
                   /\ microtasks' = Tail(microtasks)
                   /\ lastHanded' = lastRank(splitIntoBatches(spansToFlush)[1])
                   /\ UNCHANGED <<bufferSpanKeys, lockWaiters, result>>
    /\ UNCHANGED <<serverUrl, flushTimer, shutdownRequested, kind, histVars,
                   timerLog, acceptSeq, dropSeq,
                   callbackLog, fixedVars>>

\* a flush that swallows every error, whatever the shutdown flag
FlushOutcomeSwallow(errs, shutdown) == "resolved"

(***************************************************************************)
(* How a flush whose loop has ended settles (README.md 494-503): a         *)
(* non-empty errors throws, and the outer catch rethrows only when         *)
(* shutdownRequested is set; otherwise the error is logged and the promise *)
(* resolves.                                                               *)
(***************************************************************************)
FlushOutcome(errs, shutdown) ==
    IF Len(errs) > 0 /\ shutdown THEN "rejected" ELSE "resolved"

(***************************************************************************)
(* flush(), the segment after `await this.sendSpans(batches[i])` settled   *)
(* (README.md 469-506).  sent, errs and buf are successfullySentSpans,     *)
(* errors and this.buffer after the try/catch of iteration i.  When i was  *)
(* the last index the loop ends: the keys of the sent spans are released,  *)
(* a non-empty errors throws, and the outer catch rethrows only when       *)
(* shutdownRequested is set.                                               *)
(***************************************************************************)
AfterBatch(p, sent, errs, buf) ==
    /\ buffer' = buf
    /\ successfullySentSpans' = [successfullySentSpans EXCEPT ![p] = sent]
    /\ errors' = [errors EXCEPT ![p] = errs]
    /\ IF idx[p] < Len(batches[p])
       THEN /\ idx' = [idx EXCEPT ![p] = idx[p] + 1]
            /\ lastHanded' = lastRank(batches[p][idx[p] + 1])
            /\ UNCHANGED <<bufferSpanKeys, pc, result, flushLock, microtasks,
                           lockWaiters>>
       ELSE /\ bufferSpanKeys' =
                   IF Len(sent) > 0
                   THEN removeSpanKeysFromTracking(bufferSpanKeys, sent)
                   ELSE bufferSpanKeys
            /\ ResolveFlush(p, microtasks, FlushOutcome(errs, shutdownRequested),
                            flushLock)
            /\ UNCHANGED <<idx, lastHanded>>

\* sendSpans (README.md 569-587) got a 2xx response for batches[i].  Nothing
\* in sendSpans puts the response behind the continuations that are ready:
\* fetch answers a url it serves without the network in a microtask turn.
SendOk(p) ==
    /\ pc[p] = "sending"
    /\ LET batch == batches[p][idx[p]]
       IN  /\ successCount' =
                  [k \in Keys |-> successCount[k] + CountKey(batch, k)]
           /\ AfterBatch(p, successfullySentSpans[p] \o batch, errors[p], buffer)
    /\ UNCHANGED <<serverUrl, flushTimer, shutdownRequested, kind, batches, drainedAt,
                   lastAppend, acceptCount, exportCalls, sendFailures,
                   timerLog, acceptSeq, dropSeq,
                   callbackLog, fixedVars>>

\* sendSpans threw for batches[i]: network error or non-2xx response.
\* The catch (README.md 474-486) pushes batches[i+1..] to the end of the
\* buffer, and the loop goes on with batch i+1.  fetch rejects without the
\* network for a url it cannot use, so the catch can run in any microtask
\* turn, before continuations that are ready.
SendFail(p) ==
    /\ pc[p] = "sending"
    /\ sendFailures < MaxFailures
    /\ sendFailures' = sendFailures + 1
    /\ LET i == idx[p]
           n == Len(batches[p])
           remaining == IF i < n THEN SubSeq(batches[p], i + 1, n) ELSE <<>>
       IN  AfterBatch(p, successfullySentSpans[p], Append(errors[p], i),
                      buffer \o Flatten(remaining))
    /\ UNCHANGED <<serverUrl, flushTimer, shutdownRequested, kind, batches, drainedAt,
                   lastAppend, acceptCount, successCount, exportCalls,
                   timerLog, acceptSeq, dropSeq,
                   callbackLog, fixedVars>>

\* `new Error(`Failed to send some spans: ...`)` (README.md 494-497): what a
\* flush with failed batches throws; the outer catch rethrows this same
\* value after a shutdown request (501), and flush() rejects with it
FlushError(errs) == [tag |-> "Error", message |-> errs]

\* a timer callback without the .catch: the rejection leaves the callback
autoFlushNoCatch(outcome, error) ==
    IF outcome = "rejected" THEN "uncaught" ELSE "none"

\* the timer callback's `this.flush().catch((error) => console.error(...,
\* error.message))` (README.md 599-601): a rejection of the flush is caught
\* and logged.  The handler reads error.message: on null or undefined the
\* read throws, and that exception has no handler.
autoFlushCatch(outcome, error) ==
    IF outcome # "rejected" THEN "none"
    ELSE IF error.tag \in {"null", "undefined"} THEN "uncaught"
    ELSE "caught"

(***************************************************************************)
(* The caller's reaction to the settled flush() promise: the .catch of the *)
(* timer callback (README.md 599-601), the continuation of shutdown()      *)
(* after `await this.flush()` (624), or the application's own.             *)
(***************************************************************************)
Settle(p) ==
    /\ microtasks # <<>>
    /\ Head(microtasks) = p
    /\ pc[p] = "done"
    /\ microtasks' = Tail(microtasks)
    /\ pc' = [pc EXCEPT ![p] = "idle"]
    /\ kind' = [kind EXCEPT ![p] = "none"]
    /\ result' = [result EXCEPT ![p] = "none"]
    /\ batches' = [batches EXCEPT ![p] = <<>>]
    /\ drainedAt' = [drainedAt EXCEPT ![p] = 0]
    /\ idx' = [idx EXCEPT ![p] = 0]
    /\ successfullySentSpans' = [successfullySentSpans EXCEPT ![p] = <<>>]
    /\ errors' = [errors EXCEPT ![p] = <<>>]
    /\ timerLog' = IF kind[p] = "auto" /\ result[p] = "rejected"
                   THEN autoFlushCatch(result[p], FlushError(errors[p]))
                   ELSE timerLog
    /\ UNCHANGED <<serverUrl, buffer, bufferSpanKeys, flushTimer, flushLock,
                   shutdownRequested, lockWaiters, histVars, acceptSeq, dropSeq,
                   callbackLog,
                   lastHanded, fixedVars>>

Next ==
    \/ \E spans \in SpanBatches : Export(spans)
    \/ CallFlush
    \/ TimerTick
    \/ CallShutdown
    \/ \E p \in Procs : Resume(p)
    \/ \E p \in Procs : SendOk(p)
    \/ \E p \in Procs : SendFail(p)
    \/ \E p \in Procs : Settle(p)

Spec == Init /\ [][Next]_vars

(***************************************************************************)
(* The exporter under the scheduling the runtime guarantees: a ready       *)
(* continuation (the resumption of a flush whose awaited lock resolved,    *)
(* the reaction to a settled flush) is eventually run.  Nothing is assumed *)
(* of the transport: sendSpans awaits fetch with no timeout and no abort   *)
(* signal (README.md 569-587), so a response may never come.               *)
(***************************************************************************)
FairSpec == Spec /\ WF_vars(\E p \in Procs : Resume(p) \/ Settle(p))

(***************************************************************************)
(* The batcher on its own: splitIntoBatches applied to an arbitrary        *)
(* sequence of spans, of sizes 1..MaxSpanSize, under an arbitrary          *)
(* maxBatchSizeBytes in 1..MaxSplitBytes.  The span at position i has      *)
(* spanId i, so that a lost, repeated or displaced span shows.             *)
(***************************************************************************)
MaxSplitLen == 5
MaxSpanSize == 3
MaxSplitBytes == 3

SplitInputs ==
    UNION { { [i \in 1..n |-> [traceId |-> 1, spanId |-> i, size |-> f[i]]] :
                f \in [1..n -> 1..MaxSpanSize] } : n \in 0..MaxSplitLen }

InitSplit ==
    /\ ExporterInit
    /\ filterRun = NoFilterRun
    /\ traceRun = NoTraceRun
    /\ scoreRun = NoScoreRun
    /\ filtersEnv = <<>>
    /\ \E spans \in SplitInputs, maxBytes \in 1..MaxSplitBytes :
           splitRun = [spans |-> spans, maxBytes |-> maxBytes,
                       batches |-> <<>>, done |-> FALSE]

RunSplit ==
    /\ ~splitRun.done
    /\ splitRun' = [splitRun EXCEPT
                       !.batches = splitIntoBatchesOf(splitRun.spans, splitRun.maxBytes),
                       !.done = TRUE]
    /\ UNCHANGED <<serverUrl, buffer, bufferSpanKeys, flushTimer, flushLock,
                   shutdownRequested, pc, kind, lockWaiters, microtasks,
                   procVars, histVars, timerRef, timerLog, acceptSeq, dropSeq,
                   callbackLog, lastHanded,
                   filterRun, traceRun, scoreRun, filtersEnv>>

NextSplit == RunSplit

SpecSplit == InitSplit /\ [][NextSplit]_vars

(***************************************************************************)
(* The filter on its own: filterDataRecursive applied once and twice to an *)
(* arbitrary nested value, of depth up to MaxDepth, under an arbitrary     *)
(* AIQA_DATA_FILTERS.  The atoms are null, the empty string, 0, a number,  *)
(* a plain string, a JWT, an API key and the mask; the keys match the      *)
(* password filter (one in mixed case), the authorization filter, the API  *)
(* key filter, or nothing.                                                 *)
(***************************************************************************)
MaxDepth == 2

KeyAuthorization == <<"A","u","t","h","o","r","i","z","a","t","i","o","n">>
KeyApiKey == <<"a","p","i","_","k","e","y">>
JwtToken == Str(<<"e","y","J","h",".","p",".","s">>)
ApiKeyToken == Str(<<" ","s","k","-","1">>)
Zero == [tag |-> "zero", str |-> <<>>, kids |-> <<>>]
False == [tag |-> "false", str |-> <<>>, kids |-> <<>>]
Num == [tag |-> "num", str |-> <<>>, kids |-> <<>>]

FilterAtoms == {Null, Str(<<>>), Zero, False, Num, Secret, JwtToken, ApiKeyToken, Mask}
FilterKeys == {KeyPassword, KeyDbPassword, KeyUser, KeyAuthorization, KeyApiKey}

RECURSIVE FilterValues(_)
FilterValues(depth) ==
    IF depth = 0 THEN FilterAtoms
    ELSE LET inner == FilterValues(depth - 1)
         IN  inner \cup { Obj(<<[k |-> key, v |-> x]>>) : key \in FilterKeys, x \in inner }
                   \cup { Arr(<<x>>) : x \in inner }

FilterEnvs ==
    {<<>>, <<" ">>, <<",">>,
     RemovePasswords \o <<",">> \o RemoveJWT \o <<",">> \o RemoveAuthHeaders
         \o <<",">> \o RemoveAPIKeys}
        \cup FilterNames
        \cup { name \o <<",", " ">> \o other :
                   name \in FilterNames, other \in FilterNames }

InitFilter ==
    /\ ExporterInit
    /\ splitRun = NoSplitRun
    /\ traceRun = NoTraceRun
    /\ scoreRun = NoScoreRun
    /\ filtersEnv \in FilterEnvs
    /\ \E data \in FilterValues(MaxDepth) :
           filterRun = [data |-> data, once |-> Null, twice |-> Null, done |-> FALSE]

RunFilter ==
    /\ ~filterRun.done
    /\ LET once == filterDataRecursive(filtersEnv, filterRun.data)
       IN  filterRun' = [filterRun EXCEPT
                            !.once = once,
                            !.twice = filterDataRecursive(filtersEnv, once),
                            !.done = TRUE]
    /\ UNCHANGED <<serverUrl, buffer, bufferSpanKeys, flushTimer, flushLock,
                   shutdownRequested, pc, kind, lockWaiters, microtasks,
                   procVars, histVars, timerRef, timerLog, acceptSeq, dropSeq,
                   callbackLog, lastHanded,
                   splitRun, traceRun, scoreRun, filtersEnv>>

NextFilter == RunFilter

SpecFilter == InitFilter /\ [][NextFilter]_vars

(***************************************************************************)
(* The exporter carrying attribute data: one export() call of one span,    *)
(* or of two spans that make two batches, whose four bags of attributes    *)
(* hold an entry nested 0..MaxDepth levels deep in objects and arrays,     *)
(* with AIQA_DATA_FILTERS not set, naming one filter, or naming none, and  *)
(* explicit flush() calls whose sends succeed or fail: a failed first      *)
(* batch pushes the second back, and a later flush hands it over again.    *)
(* The timer and shutdown() are left out: they do not touch the entries.   *)
(***************************************************************************)
MaxSecretExports == 1
MaxAppends == 3
MaxArgs == 2

RECURSIVE Nest(_, _)
Nest(levels, data) ==
    IF levels = 0 THEN data
    ELSE Obj(<<[k |-> KeyUser, v |-> Arr(<<Nest(levels - 1, data)>>)]>>)

SecretData ==
    { Nest(levels, Obj(<<[k |-> key, v |-> x]>>)) :
          levels \in 0..MaxDepth,
          key \in {KeyPassword, KeyDbPassword, KeyUser},
          x \in {Str(<<>>), Secret, JwtToken, Mask, Cyclic} }

SecretEnvs == {<<>>, RemovePasswords, RemoveJWT, <<",">>, <<" ">>}

SecretSpans == { SpanOf(1, 1, 1, data) : data \in SecretData }

\* what one export() call carries: one span, or two spans with the same
\* attributes that do not fit one batch together
SecretBatches ==
    { <<span>> : span \in SecretSpans }
        \cup { <<SpanOf(1, 1, 1, data), SpanOf(2, 1, 2, data)>> : data \in SecretData }

InitRedact ==
    /\ ExporterInit
    /\ splitRun = NoSplitRun
    /\ filterRun = NoFilterRun
    /\ traceRun = NoTraceRun
    /\ scoreRun = NoScoreRun
    /\ filtersEnv \in SecretEnvs

NextRedact ==
    \/ \E spans \in SecretBatches : exportCalls < MaxSecretExports /\ Export(spans)
    \/ CallFlush
    \/ \E p \in Procs : Resume(p)
    \/ \E p \in Procs : SendOk(p)
    \/ \E p \in Procs : SendFail(p)
    \/ \E p \in Procs : Settle(p)

SpecRedact == InitRedact /\ [][NextRedact]_vars

(***************************************************************************)
(* The append path over a longer run of export() calls, with explicit      *)
(* flushes in between to make room: long enough for a record to be dropped *)
(* at a full buffer and offered again after a flush.                       *)
(***************************************************************************)
ExportAppend(spans) == exportCalls < MaxAppends /\ export(spans)

NextAppend ==
    \/ \E spans \in SpanBatches \ {<<>>} : ExportAppend(spans)
    \/ CallFlush
    \/ \E p \in Procs : Resume(p)
    \/ \E p \in Procs : SendOk(p)
    \/ \E p \in Procs : SendFail(p)
    \/ \E p \in Procs : Settle(p)

\* a destination is configured: with none, every flush discards what it drains
InitAppend == Init /\ serverUrl = "url"

SpecAppend == InitAppend /\ [][NextAppend]_vars

(***************************************************************************)
(* The exporter with a destination under export() calls, flushes of every  *)
(* caller and shutdown(): the states in which a flush holds the lock or    *)
(* waits for the transport, before and after the shutdown request, while   *)
(* the application goes on exporting.  At most MaxBusyFailures sends fail. *)
(***************************************************************************)
MaxBusyFailures == 1

\* a failed send, up to MaxBusyFailures times
SendFailBusy(p) == sendFailures < MaxBusyFailures /\ SendFail(p)

NextBusy ==
    \/ \E spans \in SpanBatches : Export(spans)
    \/ CallFlush
    \/ TimerTick
    \/ CallShutdown
    \/ \E p \in Procs : Resume(p)
    \/ \E p \in Procs : SendOk(p)
    \/ \E p \in Procs : SendFailBusy(p)
    \/ \E p \in Procs : Settle(p)

SpecBusy == InitAppend /\ [][NextBusy]_vars

(***************************************************************************)
(* withTracing (src/tracing.ts 297-363): one synchronous call of the       *)
(* function it returns.  The wrapped function fn is what it does when it   *)
(* is called: return a fixed value, return its first argument, or throw a  *)
(* value.  A thrown Error is a value of tag "error" with its message.      *)
(***************************************************************************)
ErrorOf(message) == [tag |-> "error", str |-> message, kids |-> <<>>]

\* what the engine throws when the recursion of filterDataRecursive runs
\* out of stack; it is an instance of Error
RangeError == [tag |-> "error", str |-> <<"stack">>, kids |-> <<>>]

\* String(exception) for the values the wrapped functions throw
StringOf(value) ==
    IF value.tag = "str" THEN value.str
    ELSE IF value.tag = "zero" THEN <<"0">>
    ELSE IF value.tag = "null" THEN <<"n","u","l","l">>
    ELSE <<"[","o","b","j","e","c","t"," ","O","b","j","e","c","t","]">>

\* filterDataRecursive of src/tracing.ts (100-119): the algorithm of the
\* exporter's; on data that holds itself the recursion does not end
traceFilter(data) ==
    IF filterDataRecursiveThrows(filtersEnv, data)
    THEN [threw |-> TRUE, value |-> RangeError]
    ELSE [threw |-> FALSE, value |-> filterDataRecursive(filtersEnv, data)]

\* the filterInput / filterOutput options: not given, a function that
\* returns null, a function that throws
FilterError == ErrorOf(<<"f">>)
FilterOptions == {"none", "null", "throws"}
applyOption(option, value) ==
    IF option = "throws" THEN [threw |-> TRUE, value |-> FilterError]
    ELSE IF option = "null" THEN [threw |-> FALSE, value |-> Null]
    ELSE [threw |-> FALSE, value |-> value]

\* fn(...args)
callFn(fn, args) ==
    IF fn.behaviour = "throw" THEN [threw |-> TRUE, value |-> fn.value]
    ELSE IF fn.behaviour = "echo"
    THEN [threw |-> FALSE, value |-> IF args = <<>> THEN Null ELSE args[1]]
    ELSE [threw |-> FALSE, value |-> fn.value]

\* how a call ended: what it returned or threw, how often fn was called and
\* how often the span of the call was ended
Returned(value, fnCalls, spanEnds) ==
    [kind |-> "returned", value |-> value, fnCalls |-> fnCalls, spanEnds |-> spanEnds]
Threw(value, fnCalls, spanEnds) ==
    [kind |-> "threw", value |-> value, fnCalls |-> fnCalls, spanEnds |-> spanEnds]

(***************************************************************************)
(* tracedFn (src/tracing.ts 304-359).  The input is recorded before the    *)
(* try block (312-328): what throws there leaves the call with fn not      *)
(* called and the span not ended.  The call of fn and the recording of the *)
(* output are inside it (329-358): what throws there goes through the      *)
(* catch, which throws the exception itself when it is an Error and        *)
(* new Error(String(exception)) otherwise, and through finally, which ends *)
(* the span.  extractAndSetTokenUsage and extractAndSetProviderAndModel    *)
(* (422-576) catch whatever they throw.                                    *)
(***************************************************************************)
tracedFn(fn, options, args) ==
    LET input == IF Len(args) = 0 THEN Null
                 ELSE IF Len(args) = 1 THEN args[1]
                 ELSE Arr(args)
        filteredArg == applyOption(options.filterInput, input)
        filteredInput == traceFilter(filteredArg.value)
        fnResult == callFn(fn, args)
        output == applyOption(options.filterOutput, fnResult.value)
        filteredOutput == traceFilter(output.value)
    IN  IF filteredArg.threw THEN Threw(filteredArg.value, 0, 0)
        ELSE IF filteredArg.value.tag # "null" /\ filteredInput.threw
        THEN Threw(filteredInput.value, 0, 0)
        ELSE IF fnResult.threw
        THEN Threw(IF fnResult.value.tag = "error" THEN fnResult.value
                   ELSE ErrorOf(StringOf(fnResult.value)), 1, 1)
        ELSE IF output.threw THEN Threw(output.value, 1, 1)
        ELSE IF filteredOutput.threw THEN Threw(filteredOutput.value, 1, 1)
        ELSE Returned(fnResult.value, 1, 1)

\* withTracing (297-303, 360-362): a function that is traced already is
\* returned as it is, and a call of it starts no further span
withTracing(fn, options, args) ==
    IF fn.isTraced
    THEN LET fnResult == callFn(fn, args)
         IN  IF fnResult.threw THEN Threw(fnResult.value, 1, 0)
             ELSE Returned(fnResult.value, 1, 0)
    ELSE tracedFn(fn, options, args)

TraceValues == {Null, Zero, Str(<<"o","k">>), Obj(<<[k |-> KeyPassword, v |-> Secret]>>), Cyclic}
ThrownValues == {ErrorOf(<<"e">>), Str(<<"e">>), Zero}
TraceFns ==
    { [behaviour |-> "return", value |-> v, isTraced |-> t] :
          v \in TraceValues, t \in BOOLEAN }
        \cup { [behaviour |-> "echo", value |-> Null, isTraced |-> t] : t \in BOOLEAN }
        \cup { [behaviour |-> "throw", value |-> v, isTraced |-> t] :
                   v \in ThrownValues, t \in BOOLEAN }
TraceArgs == UNION { [1..n -> TraceValues] : n \in 0..MaxArgs }
TraceOptions == [filterInput : FilterOptions, filterOutput : FilterOptions]

InitTrace ==
    /\ ExporterInit
    /\ splitRun = NoSplitRun
    /\ filterRun = NoFilterRun
    /\ filtersEnv = <<>>
    /\ scoreRun = NoScoreRun
    /\ \E fn \in TraceFns, options \in TraceOptions, args \in TraceArgs :
           traceRun = [called |-> FALSE, fn |-> fn, options |-> options,
                       args |-> args, outcome |-> Returned(Null, 0, 0)]

CallTraced ==
    /\ ~traceRun.called
    /\ traceRun' = [traceRun EXCEPT
                       !.called = TRUE,
                       !.outcome = withTracing(traceRun.fn, traceRun.options,
                                               traceRun.args)]
    /\ UNCHANGED <<serverUrl, buffer, bufferSpanKeys, flushTimer, flushLock,
                   shutdownRequested, pc, kind, lockWaiters, microtasks,
                   procVars, histVars, timerRef, timerLog, acceptSeq, dropSeq,
                   callbackLog,
                   lastHanded, splitRun, filterRun, scoreRun, filtersEnv>>

NextTrace == CallTraced

SpecTrace == InitTrace /\ [][NextTrace]_vars

----------------------------------------------------------------------------
(***************************************************************************)
(* scoreMetricJavascript (src/unnamed/part_000 7-74): one call, the        *)
(* executor of the promise it returns.  A script is a record of its text   *)
(* and of whether the text is the body of an async function (parses);      *)
(* given is FALSE for a property that is not there.                        *)
(***************************************************************************)
NoBody == [given |-> FALSE, text |-> "", parses |-> TRUE]
Body(text, parses) == [given |-> TRUE, text |-> text, parses |-> parses]

ScriptBodies ==
    {Body("", TRUE), Body("return 3;", TRUE), Body("return (3);", TRUE),
     Body("return Symbol('x');", TRUE), Body("throw new Error('boom');", TRUE),
     Body("await new Promise(() => {});", TRUE), Body("return (", FALSE)}

\* metric.parameters: not there, or an object with code and script
NoParameters == [given |-> FALSE, code |-> NoBody, script |-> NoBody]

ScoreMetrics ==
    {NoParameters}
    \cup { [given |-> TRUE, code |-> code, script |-> script] :
               code \in ScriptBodies \cup {NoBody},
               script \in ScriptBodies \cup {NoBody} }

\* a value is truthy: it is there and it is not the empty string
Truthy(body) == body.given /\ body.text # ""

\* metric.parameters?.code || metric.parameters?.script (part_000 10)
functionBodyOf(parameters) ==
    IF ~parameters.given THEN NoBody
    ELSE IF Truthy(parameters.code) THEN parameters.code
    ELSE parameters.script

\* the names the wrapper declares with const in front of the script
\* (part_000 25-36), under its "use strict" directive (24)
WrapperDeclarations ==
    <<"global", "require", "process", "eval", "Function", "setTimeout",
      "setInterval", "fetch", "XMLHttpRequest", "File", "WebSocket", "Buffer">>

\* the names strict mode code cannot declare
StrictModeRestricted == {"eval", "arguments"}

\* new AsyncFunction('output', 'example', wrapper + functionBody)
\* (part_000 23-38) throws SyntaxError: the wrapper declares a name strict
\* mode code cannot declare, or the script is not a function body
AsyncFunctionThrows(functionBody) ==
    \/ \E i \in 1..Len(WrapperDeclarations) :
           WrapperDeclarations[i] \in StrictModeRestricted
    \/ ~functionBody.parses

\* a call of reject
reject(settled, why) == Append(settled, [how |-> "reject", why |-> why])

InitScore ==
    /\ ExporterInit
    /\ splitRun = NoSplitRun
    /\ filterRun = NoFilterRun
    /\ traceRun = NoTraceRun
    /\ filtersEnv = <<>>
    /\ \E parameters \in ScoreMetrics :
           scoreRun = [called |-> FALSE, parameters |-> parameters,
                       finished |-> FALSE, timer |-> "unset",
                       userFn |-> "unset", settled |-> <<>>]

exporterVars ==
    <<serverUrl, buffer, bufferSpanKeys, flushTimer, flushLock,
      shutdownRequested, pc, kind, lockWaiters, microtasks, procVars,
      histVars, timerRef, timerLog, acceptSeq, dropSeq, callbackLog,
      lastHanded, splitRun, filterRun, traceRun, filtersEnv>>

\* the executor (part_000 8-73): the rejection for a missing script (11-13),
\* the rejection for a script the constructor refuses (39-41); past these
\* the timer is set (44-49) and userFn is called (52)
scoreMetricJavascript ==
    /\ ~scoreRun.called
    /\ LET functionBody == functionBodyOf(scoreRun.parameters)
       IN  scoreRun' =
               IF ~Truthy(functionBody)
               THEN [scoreRun EXCEPT !.called = TRUE,
                                     !.settled = reject(@, "no script")]
               ELSE IF AsyncFunctionThrows(functionBody)
               THEN [scoreRun EXCEPT !.called = TRUE,
                                     !.settled = reject(@, "parse")]
               ELSE [scoreRun EXCEPT !.called = TRUE, !.timer = "armed",
                                     !.userFn = "pending"]
    /\ UNCHANGED exporterVars

NextScore == scoreMetricJavascript

SpecScore == InitScore /\ [][NextScore]_vars

----------------------------------------------------------------------------
(***************************************************************************)
(* Notions the properties use.                                             *)
(***************************************************************************)
Flushing == { p \in Procs : pc[p] = "sending" }

\* the entries a flush in progress has drained (sent or not)
DrainedSpans(p) == IF pc[p] = "sending" THEN Flatten(batches[p]) ELSE <<>>
DrainedKeys == UNION { SeqKeys(DrainedSpans(p)) : p \in Procs }

\* the entries of a flush in progress that are in flight or not yet attempted
UnsentSpans(p) ==
    IF pc[p] = "sending"
    THEN Flatten(SubSeq(batches[p], idx[p], Len(batches[p])))
    ELSE <<>>
UnsentKeys == UNION { SeqKeys(UnsentSpans(p)) : p \in Procs }

SeqElems(spans) == { spans[i] : i \in 1..Len(spans) }

\* the step is the last segment of flush p: p returns to its caller
FlushReturns(p) == pc[p] = "sending" /\ pc'[p] = "done"

\* the step is an export() call
ExportStep == exportCalls' = exportCalls + 1

(***************************************************************************)
(* C1.  Single-flight flush: at most one flush execution is between its    *)
(* buffer drain and its completion at any time, whoever the callers are.   *)
(***************************************************************************)
SingleFlightFlush == Cardinality(Flushing) <= 1

(***************************************************************************)
(* C2.  At-least-once delivery, in the form a finite run decides: with a   *)
(* destination configured and no shutdown requested, a span that was       *)
(* accepted and has not been delivered is still in the pipeline (buffered, *)
(* or in a batch in flight or not yet attempted), so that a later flush    *)
(* can deliver it; a failed send never loses it.                           *)
(***************************************************************************)
NoAcceptedSpanLost ==
    (serverUrl # "" /\ ~shutdownRequested) =>
        \A k \in Keys :
            acceptCount[k] > successCount[k] =>
                k \in SeqKeys(buffer) \cup UnsentKeys

(***************************************************************************)
(* C3.  Requeue-on-failure: when a flush in which batch k was the first to *)
(* fail returns, the entries of batches k..n are in the buffer with their  *)
(* keys tracked, and the keys of batches 1..k-1 are released and not in    *)
(* the buffer.                                                             *)
(***************************************************************************)
RequeueOnFailure ==
    [][\A p \in Procs :
         (FlushReturns(p) /\ errors'[p] # <<>>) =>
            LET k == errors'[p][1]
                n == Len(batches[p])
            IN  /\ \A j \in k..n : \A e \in SeqElems(batches[p][j]) :
                      /\ e \in SeqElems(buffer')
                      /\ spanKeyOf(e) \in bufferSpanKeys'
                /\ \A j \in 1..(k - 1) : \A e \in SeqElems(batches[p][j]) :
                      /\ spanKeyOf(e) \notin SeqKeys(buffer')
                      /\ spanKeyOf(e) \notin bufferSpanKeys']_vars

(***************************************************************************)
(* C4.  Scenario E: a flush of two batches whose first send succeeds and   *)
(* whose second fails leaves exactly the second batch in the buffer, and a *)
(* flush whose sends all succeed leaves the buffer empty (no appends       *)
(* during either flush: the buffer is empty before the last segment).      *)
(***************************************************************************)
ScenarioE ==
    [][\A p \in Procs :
         (FlushReturns(p) /\ buffer = <<>>) =>
            /\ (Len(batches[p]) = 2 /\ errors'[p] = <<2>>) =>
                   buffer' = batches[p][2]
            /\ errors'[p] = <<>> => buffer' = <<>>]_vars

(***************************************************************************)
(* C5.  No double delivery: for every identity key, the entries delivered  *)
(* in successfully sent batches never outnumber the records accepted with  *)
(* that key, so no accepted entry is delivered twice.                      *)
(***************************************************************************)
NoDoubleDelivery == \A k \in Keys : successCount[k] <= acceptCount[k]

(***************************************************************************)
(* C6.  Capacity under appends: an export() call that starts with the      *)
(* buffer within maxBufferSpans ends with it within maxBufferSpans, every  *)
(* record beyond the free room being counted as dropped.                   *)
(***************************************************************************)
AppendKeepsCapacity ==
    [][(ExportStep /\ Len(buffer) <= maxBufferSpans) =>
          /\ Len(buffer') <= maxBufferSpans
          /\ Len(buffer') = Len(buffer) + lastAppend'.added
          /\ lastAppend'.offered =
                 lastAppend'.added + lastAppend'.duplicates + lastAppend'.dropped]_vars

(***************************************************************************)
(* C7.  Dedup: an export() call stores no further copy of a key that is    *)
(* buffered or drained by a flush still in progress; the number of buffer  *)
(* entries with that key does not change.                                  *)
(***************************************************************************)
DedupNoSecondCopy ==
    [][ExportStep =>
          \A k \in SeqKeys(buffer) \cup DrainedKeys :
              CountKey(buffer', k) = CountKey(buffer, k)]_vars

(***************************************************************************)
(* C8.  Identity keys are unique within the buffer in every state.         *)
(***************************************************************************)
UniqueBufferKeys ==
    \A i, j \in 1..Len(buffer) :
        i # j => spanKeyOf(buffer[i]) # spanKeyOf(buffer[j])

(***************************************************************************)
(* C9.  Tracking-set consistency: a key is tracked if and only if an entry *)
(* with that key is buffered or was drained by a flush that has not yet    *)
(* completed.                                                              *)
(***************************************************************************)
TrackingConsistent ==
    \A k \in Keys :
        k \in bufferSpanKeys <=> k \in SeqKeys(buffer) \cup DrainedKeys

(***************************************************************************)
(* C10.  Capacity in all states: the buffer never holds more than          *)
(* maxBufferSpans entries, also after failed sends re-queue entries.       *)
(***************************************************************************)
CapacityInAllStates == Len(buffer) <= maxBufferSpans


----------------------------------------------------------------------------
(***************************************************************************)
(* Notions of the second group of properties.                              *)
(***************************************************************************)
ShutdownKinds == {"shutdown", "reshutdown"}

\* the step hands a batch of flush p to sendSpans: the first batch when p
\* leaves its drain, batch i+1 when the send of batch i has settled
HandsOver(p) ==
    \/ pc[p] = "await" /\ pc'[p] = "sending"
    \/ pc[p] = "sending" /\ pc'[p] = "sending" /\ idx'[p] = idx[p] + 1

HandedBatch(p) == batches'[p][idx'[p]]

\* when the entries of a batch were accepted, in the batch's order
Ranks(batch) == [i \in 1..Len(batch) |-> acceptSeq[spanKeyOf(batch[i])]]

NonDecreasing(ranks) == \A i \in 1..(Len(ranks) - 1) : ranks[i] <= ranks[i + 1]

\* the application's own work is done: no flush() or shutdown() it called
\* is in progress, and no continuation is ready to run
AppWorkDone ==
    /\ microtasks = <<>>
    /\ \A p \in Procs : kind[p] \in {"none", "auto"}

\* the event loop has a reason to go on: a ref'd timer, or a request that
\* awaits its response
HostKeptAlive ==
    \/ flushTimer /\ timerRef
    \/ \E p \in Procs : pc[p] = "sending"

RECURSIVE BatchBytes(_)
BatchBytes(batch) ==
    IF batch = <<>> THEN 0 ELSE spanSize(Head(batch)) + BatchBytes(Tail(batch))

(***************************************************************************)
(* C11.  The result of an explicit flush() that returns before any         *)
(* shutdown request: it reports a failure to its caller exactly when at    *)
(* least one of its batch sends failed.                                    *)
(***************************************************************************)
FlushReportsFailure ==
    [][\A p \in Procs :
          (FlushReturns(p) /\ kind[p] = "flush" /\ ~shutdownRequested)
              => (result'[p] = "rejected" <=> errors'[p] # <<>>)]_vars

(***************************************************************************)
(* C12.  Shutdown surfaces loss: the flush of a shutdown() call in which a *)
(* batch send failed rejects, so that shutdown(), which awaits it, does    *)
(* not complete successfully.                                              *)
(***************************************************************************)
ShutdownSurfacesLoss ==
    [][\A p \in Procs :
          (FlushReturns(p) /\ kind[p] \in ShutdownKinds /\ errors'[p] # <<>>)
              => result'[p] = "rejected"]_vars

ShutdownFlushFailed ==
    \E p \in Procs : /\ pc[p] = "done"
                     /\ kind[p] = "shutdown"
                     /\ errors[p] # <<>>
                     /\ result[p] = "rejected"

(***************************************************************************)
(* C13.  Auto-flush failures never escape: no step leaves an error of a    *)
(* flush the timer started outside the timer callback; when such a flush   *)
(* rejects, which it does when shutdown was requested while it was in      *)
(* flight and a send failed, its caller's .catch takes the rejection; and  *)
(* the timer is armed after every step as long as shutdown has not been    *)
(* requested.                                                              *)
(***************************************************************************)
AutoFlushNeverEscapes ==
    [][/\ timerLog' # "uncaught"
       /\ ~shutdownRequested' => flushTimer'
       /\ \A p \in Procs :
              (/\ kind[p] = "auto"
               /\ pc[p] = "done"
               /\ pc'[p] = "idle"
               /\ result[p] = "rejected") => timerLog' = "caught"]_vars

\* a flush the timer started has rejected, and the rejection was caught
AutoFlushRejectionCaught ==
    /\ timerLog = "caught"
    /\ shutdownRequested
    /\ sendFailures > 0

(***************************************************************************)
(* C14.  shutdown() is idempotent: the flush of a second shutdown() call   *)
(* hands no entry to the transport that has been delivered already, and    *)
(* rejects only for a failed send of its own.                              *)
(***************************************************************************)
ShutdownIdempotent ==
    [][\A p \in Procs :
          kind[p] = "reshutdown" =>
              /\ HandsOver(p) =>
                    \A i \in 1..Len(HandedBatch(p)) :
                       successCount'[spanKeyOf(HandedBatch(p)[i])]
                           < acceptCount'[spanKeyOf(HandedBatch(p)[i])]
              /\ (FlushReturns(p) /\ result'[p] = "rejected")
                    => errors'[p] # <<>>]_vars

(***************************************************************************)
(* C15.  Once shutdown() has been called the timer is not armed, and no    *)
(* timer tick calls flush(): the invocations that begin after the request  *)
(* are those of shutdown() and of explicit flush() calls.                  *)
(***************************************************************************)
NoTickAfterShutdown ==
    [][/\ shutdownRequested' => ~flushTimer'
       /\ shutdownRequested =>
             \A p \in Procs :
                ~(pc[p] = "idle" /\ pc'[p] # "idle" /\ kind'[p] = "auto")]_vars

ShutdownFlushRunning ==
    /\ shutdownRequested
    /\ ~flushTimer
    /\ \E p \in Procs : kind[p] = "shutdown" /\ pc[p] = "sending"

(***************************************************************************)
(* C16.  Every flush eventually completes even when the transport never    *)
(* responds: a flush that awaits a batch send eventually gets past it.     *)
(***************************************************************************)
FlushEventuallyCompletes ==
    \A p \in Procs : (pc[p] = "sending") ~> (pc[p] # "sending")

(***************************************************************************)
(* C17.  The scheduler never keeps the host alive on its own: with the     *)
(* timer armed and shutdown never called, once the application's own work  *)
(* is done the event loop has no reason to go on: the timer is not ref'd   *)
(* and no request of a flush the timer started awaits a response.          *)
(***************************************************************************)
SchedulerNoKeepAlive ==
    (flushTimer /\ ~shutdownRequested /\ AppWorkDone) => ~HostKeptAlive

(***************************************************************************)
(* C18.  Delivery order: the entries handed to the transport come in the   *)
(* order in which they were accepted: each batch handed over continues, in *)
(* acceptance order, from the entry handed over last.  Stated for runs in  *)
(* which every key was accepted at most once, where the moment of          *)
(* acceptance of an entry is unambiguous.                                  *)
(***************************************************************************)
DeliveryOrder ==
    [][\A p \in Procs :
          (HandsOver(p) /\ \A k \in Keys : acceptCount'[k] <= 1)
              => NonDecreasing(<<lastHanded>> \o Ranks(HandedBatch(p)))]_vars

(***************************************************************************)
(* C19.  Batcher order preservation: for every input sequence and every    *)
(* maxBytes, the concatenation of the batches is the input sequence.       *)
(***************************************************************************)
SplitPreservesOrder ==
    splitRun.done => Flatten(splitRun.batches) = splitRun.spans

SplitWithOversized ==
    /\ splitRun.done
    /\ Len(splitRun.batches) >= 3
    /\ \E i \in 1..Len(splitRun.spans) :
          spanSize(splitRun.spans[i]) > splitRun.maxBytes

(***************************************************************************)
(* C20.  Batch size bound: for every input and every maxBytes, each batch  *)
(* has total size <= maxBytes, except a batch of exactly one entry whose   *)
(* own size exceeds maxBytes.                                              *)
(***************************************************************************)
SplitBatchBound ==
    splitRun.done =>
        \A b \in 1..Len(splitRun.batches) :
           \/ BatchBytes(splitRun.batches[b]) <= splitRun.maxBytes
           \/ /\ Len(splitRun.batches[b]) = 1
              /\ spanSize(splitRun.batches[b][1]) > splitRun.maxBytes

SplitFullAndOversized ==
    /\ splitRun.done
    /\ \E b \in 1..Len(splitRun.batches) :
          /\ Len(splitRun.batches[b]) >= 2
          /\ BatchBytes(splitRun.batches[b]) = splitRun.maxBytes
    /\ \E b \in 1..Len(splitRun.batches) :
          /\ Len(splitRun.batches[b]) = 1
          /\ BatchBytes(splitRun.batches[b]) > splitRun.maxBytes


----------------------------------------------------------------------------
(***************************************************************************)
(* Notions of the third group of properties.                               *)
(***************************************************************************)
PasswordFilterOn == RemovePasswords \in getEnabledFilters(filtersEnv)

\* data holds, at some depth, a truthy value other than the mask under a
\* key that contains "password" in any case
RECURSIVE Leaks(_)
Leaks(data) ==
    /\ data.tag \in {"obj", "arr"}
    /\ \E i \in 1..Len(data.kids) :
          \/ /\ data.tag = "obj"
             /\ includes(toLowerCase(data.kids[i].k), KeyPassword)
             /\ ~Falsy(data.kids[i].v)
             /\ data.kids[i].v # Mask
          \/ Leaks(data.kids[i].v)

SpanLeaks(span) ==
    \/ Leaks(span.attributes)
    \/ \E i \in 1..Len(span.links) : Leaks(span.links[i].attributes)
    \/ \E i \in 1..Len(span.events) : Leaks(span.events[i].attributes)
    \/ Leaks(span.resource.attributes)

\* the batches flush p has handed to sendSpans so far
HandedBatches(p) ==
    IF pc[p] = "sending" THEN SubSeq(batches[p], 1, idx[p]) ELSE <<>>

(***************************************************************************)
(* C21.  Redaction reaches the transport: with RemovePasswords enabled, no *)
(* span of a batch handed to the transport holds, in its own, its links',  *)
(* its events' or its resource's attributes and at any depth, a truthy     *)
(* value other than the mask under a key containing "password".            *)
(***************************************************************************)
RedactionReachesTransport ==
    PasswordFilterOn =>
        \A p \in Procs : \A b \in 1..Len(HandedBatches(p)) :
            \A i \in 1..Len(HandedBatches(p)[b]) : ~SpanLeaks(HandedBatches(p)[b][i])

\* a masked span is with the transport for the second time: it was pushed
\* back when the batch before it failed, sent all the same, and drained
\* again by the next flush
MaskedSpanInFlight ==
    /\ PasswordFilterOn
    /\ \E p \in Procs :
          /\ pc[p] = "sending"
          /\ sendFailures > 0
          /\ successCount[spanKeyOf(batches[p][idx[p]][1])] > 0
          /\ batches[p][idx[p]][1].events[1].attributes =
                 Nest(MaxDepth, Obj(<<[k |-> KeyDbPassword, v |-> Mask]>>))

(***************************************************************************)
(* C22.  Redaction idempotence: for every nested value and every set of    *)
(* enabled filters, filtering the filtered value changes nothing.          *)
(***************************************************************************)
FilterIdempotent == filterRun.done => filterRun.twice = filterRun.once

FilteredNestedValue ==
    /\ filterRun.done
    /\ filterRun.data.tag = "obj"
    /\ filterRun.data.kids[1].v.tag \in {"obj", "arr"}
    /\ filterRun.once # filterRun.data
    /\ filterRun.once.kids[1].v # Mask


\* the step is the drain of flush p: the segment after `await this.flushLock`
Drains(p) == pc[p] = "await" /\ pc'[p] # "await"

\* the keys of the batches of flush p whose send has failed
FailedKeys(p) ==
    UNION { SeqKeys(batches[p][errors'[p][e]]) : e \in 1..Len(errors'[p]) }

(***************************************************************************)
(* C23.  Unconfigured destination: a flush that drains a non-empty buffer  *)
(* with no destination configured hands nothing to the transport, releases *)
(* the key of every drained entry, leaves none of them in the buffer and   *)
(* resolves.                                                               *)
(***************************************************************************)
UnconfiguredDestination ==
    [][/\ serverUrl = "" =>
             /\ \A p \in Procs : pc'[p] # "sending"
             /\ successCount' = successCount
       /\ \A p \in Procs :
             (Drains(p) /\ serverUrl = "" /\ buffer # <<>>) =>
                 /\ pc'[p] = "done"
                 /\ result'[p] = "resolved"
                 /\ buffer' = <<>>
                 /\ bufferSpanKeys' \cap SeqKeys(buffer) = {}]_vars

DiscardedWithoutDestination ==
    /\ serverUrl = ""
    /\ \E k \in Keys : acceptCount[k] > 0
    /\ buffer = <<>>
    /\ bufferSpanKeys = {}
    /\ \E p \in Procs : pc[p] = "done" /\ result[p] = "resolved"

(***************************************************************************)
(* C24.  Tracing wrapper transparency: a call of the function returned by  *)
(* withTracing returns the value the wrapped function returns for the      *)
(* arguments, throws the error the wrapped function throws, and on both    *)
(* paths ends its span exactly once.                                       *)
(***************************************************************************)
TracingTransparent ==
    traceRun.called =>
        LET wrapped == callFn(traceRun.fn, traceRun.args)
            outcome == traceRun.outcome
        IN  /\ ~wrapped.threw =>
                  outcome.kind = "returned" /\ outcome.value = wrapped.value
            /\ (wrapped.threw /\ wrapped.value.tag = "error") =>
                  outcome.kind = "threw" /\ outcome.value = wrapped.value
            /\ (~traceRun.fn.isTraced
                    /\ (~wrapped.threw \/ wrapped.value.tag = "error")) =>
                  outcome.spanEnds = 1

(***************************************************************************)
(* C25.  Stop at first failure: once a batch send of a flush has failed,   *)
(* that flush hands no further batch to the transport.                     *)
(***************************************************************************)
StopAtFirstFailure ==
    [][\A p \in Procs : HandsOver(p) => errors'[p] = <<>>]_vars

(***************************************************************************)
(* C26.  Front-of-buffer requeue: when a batch send fails, what the flush  *)
(* pushes back goes in front of the entries that were appended while the   *)
(* flush was in progress: the buffer of before is the tail of the buffer   *)
(* of after.                                                               *)
(***************************************************************************)
FrontOfBufferRequeue ==
    [][\A p \in Procs :
          (pc[p] = "sending" /\ Len(errors'[p]) > Len(errors[p])) =>
              /\ Len(buffer') >= Len(buffer)
              /\ SubSeq(buffer', Len(buffer') - Len(buffer) + 1, Len(buffer'))
                     = buffer]_vars

(***************************************************************************)
(* C27.  Append classification: every record of an append call is counted  *)
(* once, as added, duplicate or dropped; a record whose key is tracked     *)
(* when the call starts is counted as a duplicate, also at a full buffer,  *)
(* so at least as many duplicates are counted as the call offers records   *)
(* with a tracked key, and at most as many drops as it offers records with *)
(* an untracked key.                                                       *)
(***************************************************************************)
DuplicateCheckFirst ==
    [][\A spans \in SpanBatches \ {<<>>} :
          export(spans) =>
              LET tracked == { i \in 1..Len(spans) :
                                   spanKeyOf(spans[i]) \in bufferSpanKeys }
              IN  /\ lastAppend'.added + lastAppend'.duplicates
                         + lastAppend'.dropped = Len(spans)
                  /\ lastAppend'.duplicates >= Cardinality(tracked)
                  /\ lastAppend'.dropped <= Len(spans) - Cardinality(tracked)]_vars

(***************************************************************************)
(* C28.  A record dropped at a full buffer is not stored and its key is    *)
(* not added to the tracked set, so that the record is stored when it is   *)
(* offered again while the buffer has room and the exporter holds no entry *)
(* with its key, neither in the buffer nor in a flush in progress.         *)
(***************************************************************************)
DroppedNotTracked ==
    [][\A spans \in SpanBatches \ {<<>>} :
          export(spans) =>
              LET stored == SubSeq(buffer', Len(buffer) + 1, Len(buffer'))
                  droppedNow == { k \in Keys : dropSeq'[k] # dropSeq[k] }
              IN  /\ buffer' = buffer \o stored
                  /\ lastAppend'.dropped > 0 => droppedNow # {}
                  /\ \A k \in droppedNow :
                         /\ k \notin SeqKeys(stored)
                         /\ k \in bufferSpanKeys' => k \in bufferSpanKeys
                  /\ \A k \in SeqKeys(spans) :
                         (/\ dropSeq[k] > 0
                          /\ k \notin SeqKeys(buffer) \cup DrainedKeys
                          /\ Len(buffer) < maxBufferSpans) =>
                             /\ k \in SeqKeys(stored)
                             /\ k \in bufferSpanKeys']_vars

(***************************************************************************)
(* C29.  Release only on confirmed delivery: the drain of a flush with a   *)
(* destination leaves the tracked set as it is, and a key leaves the       *)
(* tracked set only when a flush returns that has sent the key's batch     *)
(* successfully and none of whose failed batches holds the key, or when a  *)
(* flush without destination discards the key's entry.                     *)
(***************************************************************************)
ReleaseOnlyOnDelivery ==
    [][/\ \A p \in Procs :
             (Drains(p) /\ serverUrl # "") => bufferSpanKeys' = bufferSpanKeys
       /\ \A k \in bufferSpanKeys \ bufferSpanKeys' :
             \E p \in Procs :
                \/ /\ FlushReturns(p)
                   /\ k \in SeqKeys(successfullySentSpans'[p])
                   /\ k \notin FailedKeys(p)
                \/ /\ Drains(p)
                   /\ serverUrl = ""
                   /\ k \in SeqKeys(buffer)]_vars

(***************************************************************************)
(* C30.  Flush on an empty buffer is a no-op: it resolves without handing  *)
(* anything to the transport, leaves the buffer, the tracked set and the   *)
(* shutdown flag as they are, and releases the flush lock.                 *)
(***************************************************************************)
EmptyFlushNoOp ==
    [][\A p \in Procs :
          (Drains(p) /\ buffer = <<>>) =>
              /\ pc'[p] = "done"
              /\ result'[p] = "resolved"
              /\ buffer' = <<>>
              /\ bufferSpanKeys' = bufferSpanKeys
              /\ shutdownRequested' = shutdownRequested
              /\ successCount' = successCount
              /\ flushLock' = 0]_vars

EmptyFlushReturned ==
    /\ serverUrl # ""
    /\ buffer = <<>>
    /\ flushLock = 0
    /\ \E p \in Procs : /\ pc[p] = "done"
                        /\ result[p] = "resolved"
                        /\ batches[p] = <<>>

\* what a flush in progress and the transport work on
flushState == <<pc, flushLock, microtasks, lockWaiters, successCount, lastHanded>>

(***************************************************************************)
(* C31.  append never waits on the network: in every state, before and     *)
(* after the shutdown request and whatever the flushes are doing, an       *)
(* export() call can be taken, and the step it takes                       *)
(* hands nothing to the transport and moves no flush: the positions of the *)
(* flushes, the lock and the queue of continuations stay as they are.      *)
(***************************************************************************)
AppendNeverWaits ==
    \A spans \in SpanBatches :
        exportCalls < MaxExports =>
            ENABLED (Export(spans) /\ flushState' = flushState)

\* the flush of shutdown() waits for the transport, and the buffer holds a
\* record that was accepted after that flush drained it
AppendedDuringSend ==
    \E p \in Procs :
        /\ pc[p] = "sending"
        /\ kind[p] = "shutdown"
        /\ shutdownRequested
        /\ \E k \in SeqKeys(buffer) :
               /\ acceptSeq[k] > drainedAt[p] * MaxRecs
               /\ k \notin SeqKeys(Flatten(batches[p]))

\* the batcher's input is five records of one size, two of which fit a batch
\* and three of which do not
FiveEqualTwoFit ==
    /\ Len(splitRun.spans) = 5
    /\ \A i \in 1..5 : spanSize(splitRun.spans[i]) = spanSize(splitRun.spans[1])
    /\ 2 * spanSize(splitRun.spans[1]) <= splitRun.maxBytes
    /\ 3 * spanSize(splitRun.spans[1]) > splitRun.maxBytes

(***************************************************************************)
(* C32.  Greedy batching: of two consecutive batches that are both within  *)
(* the budget, the earlier one could not take the first entry of the later *)
(* one: its size plus the size of that entry exceeds maxBytes.  Five       *)
(* entries of one size, of which exactly two fit a batch, give batches of  *)
(* 2, 2 and 1 entries.                                                     *)
(***************************************************************************)
SplitGreedy ==
    splitRun.done =>
        /\ \A b \in 1..(Len(splitRun.batches) - 1) :
               (/\ BatchBytes(splitRun.batches[b]) <= splitRun.maxBytes
                /\ BatchBytes(splitRun.batches[b + 1]) <= splitRun.maxBytes) =>
                   BatchBytes(splitRun.batches[b])
                       + spanSize(splitRun.batches[b + 1][1]) > splitRun.maxBytes
        /\ FiveEqualTwoFit =>
               [b \in 1..Len(splitRun.batches) |-> Len(splitRun.batches[b])]
                   = <<2, 2, 1>>

SplitFiveIntoThree ==
    /\ splitRun.done
    /\ FiveEqualTwoFit
    /\ Len(splitRun.batches) = 3

\* the records that are larger than a batch on their own
Oversized(spans, maxBytes) ==
    SelectSeq(spans, LAMBDA span : spanSize(span) > maxBytes)

(***************************************************************************)
(* C33.  Oversized entries and non-empty batches: every entry larger than  *)
(* maxBytes is in the result, in a batch of its own; no batch is empty,    *)
(* and the result has no batch exactly when the input has no entry.        *)
(***************************************************************************)
SplitOversizedAlone ==
    splitRun.done =>
        /\ Oversized(Flatten(splitRun.batches), splitRun.maxBytes)
               = Oversized(splitRun.spans, splitRun.maxBytes)
        /\ \A b \in 1..Len(splitRun.batches) :
               /\ splitRun.batches[b] # <<>>
               /\ Oversized(splitRun.batches[b], splitRun.maxBytes) # <<>> =>
                      Len(splitRun.batches[b]) = 1
        /\ splitRun.batches = <<>> <=> splitRun.spans = <<>>

SplitOversizedBetween ==
    /\ splitRun.done
    /\ \E i \in 2..(Len(splitRun.spans) - 1) :
          /\ spanSize(splitRun.spans[i]) > splitRun.maxBytes
          /\ spanSize(splitRun.spans[i - 1]) + spanSize(splitRun.spans[i + 1])
                 <= splitRun.maxBytes
          /\ \E b \in 1..Len(splitRun.batches) :
                 splitRun.batches[b] = <<splitRun.spans[i]>>

\* an object of one entry whose value is falsy
FalsyEntry(data) ==
    /\ data.tag = "obj"
    /\ Len(data.kids) = 1
    /\ Falsy(data.kids[1].v)

(***************************************************************************)
(* C34.  Falsy values are never masked: the empty string, 0, false and     *)
(* null come out of the filter as they went in, under every key, also one  *)
(* that contains 'password' or is 'authorization', and under every setting *)
(* of the enabled filters.                                                 *)
(***************************************************************************)
FalsyNeverMasked ==
    (filterRun.done /\ (Falsy(filterRun.data) \/ FalsyEntry(filterRun.data)))
        => filterRun.once = filterRun.data

FalsyUnderSecretKey ==
    /\ filterRun.done
    /\ FalsyEntry(filterRun.data)
    /\ filterRun.data.kids[1].v = Zero
    /\ filterRun.data.kids[1].k = KeyAuthorization
    /\ RemoveAuthHeaders \in getEnabledFilters(filtersEnv)
    /\ filterRun.once = filterRun.data

(***************************************************************************)
(* C35.  Filter failure containment: redaction never raises.  No export()  *)
(* call ends by an exception of the filter: every call completes, and the  *)
(* records it offered are all counted as added, duplicate or dropped.      *)
(***************************************************************************)
FilterFailureContained ==
    /\ ~lastAppend.threw
    /\ lastAppend.offered
           = lastAppend.added + lastAppend.duplicates + lastAppend.dropped

(***************************************************************************)
(* C36.  The flush lock is always released: once a flush has ended,        *)
(* however it ended, the lock it installed is resolved: it is not the      *)
(* pending lock of the exporter and no flush is waiting for it.            *)
(***************************************************************************)
LockAlwaysReleased ==
    \A p \in Procs :
        pc[p] = "done" =>
            /\ flushLock # p
            /\ \A i \in 1..Len(lockWaiters) : lockWaiters[i][2] # p

LockReleasedAfterThrow ==
    \E p \in Procs :
        /\ pc[p] = "done"
        /\ result[p] = "rejected"
        /\ errors[p] # <<>>
        /\ \E q \in Procs \ {p} : pc[q] = "sending" /\ flushLock = q

\* the latest acceptance among the entries of spans
MaxRank(spans) ==
    IF spans = <<>> THEN 0
    ELSE LET ranks == { acceptSeq[k] : k \in SeqKeys(spans) }
         IN  CHOOSE r \in ranks : \A other \in ranks : other <= r

\* the keys of the records export() accepted after flush p drained the
\* buffer, and that the buffer holds
AppendedDuring(p) ==
    { k \in SeqKeys(buffer) : acceptSeq[k] > drainedAt[p] * MaxRecs }

(***************************************************************************)
(* C37.  Appends during an in-flight flush are preserved: a record that    *)
(* was accepted after a flush drained the buffer, while that flush waits   *)
(* for the transport, stays in the buffer with its key tracked through     *)
(* every step, whatever the flush does, until a flush drains it, and its   *)
(* key is tracked then.                                                    *)
(***************************************************************************)
AppendsDuringFlushKept ==
    [][\A p \in Procs :
          pc[p] = "sending" =>
              \A k \in AppendedDuring(p) :
                  \/ k \in SeqKeys(buffer') /\ k \in bufferSpanKeys'
                  \/ \E q \in Procs :
                         /\ Drains(q)
                         /\ k \in SeqKeys(Flatten(batches'[q]))
                         /\ k \in bufferSpanKeys']_vars

(***************************************************************************)
(* C38.  The ingestion callback is acknowledged exactly once per export    *)
(* call, with SUCCESS, before the records are buffered: an export() call   *)
(* adds one result to those passed to resultCallback, it is SUCCESS        *)
(* whatever becomes of the call's records, and the callback ran on the     *)
(* buffer as it was before the call; no other step, none of the transport  *)
(* in particular, passes a result.                                         *)
(***************************************************************************)
AcknowledgedOnce ==
    [][IF ExportStep
       THEN callbackLog' = Append(callbackLog,
                                  [code |-> SUCCESS, buffered |-> Len(buffer)])
       ELSE callbackLog' = callbackLog]_vars

\* two calls acknowledged: the first before its records were buffered, the
\* second, all duplicates, while the first call's records are with the
\* transport
AcknowledgedBeforeBuffered ==
    /\ Len(callbackLog) = 2
    /\ callbackLog[1].buffered = 0
    /\ acceptSeq[spanKeyOf(PlainSpan(1, 1, 1))] = 1
    /\ lastAppend.duplicates > 0
    /\ \E p \in Procs : pc[p] = "sending" /\ drainedAt[p] = 1

(***************************************************************************)
(* C39.  Local javascript metric scoring settles exactly once: resolve and *)
(* reject are called at most once between them, a call without a script   *)
(* is rejected, and the rejection for a parse error is given to the        *)
(* scripts that do not parse only: a script that parses is run, with the   *)
(* timer set, and the promise is left to the script's result or to the     *)
(* timeout.                                                                *)
(***************************************************************************)
ScoreSettlesOnce ==
    scoreRun.called =>
        LET functionBody == functionBodyOf(scoreRun.parameters)
        IN  /\ Len(scoreRun.settled) <= 1
            /\ ~Truthy(functionBody) =>
                   /\ Len(scoreRun.settled) = 1
                   /\ scoreRun.settled[1].why = "no script"
            /\ Truthy(functionBody) /\ functionBody.parses =>
                   /\ scoreRun.settled = <<>>
                   /\ scoreRun.timer = "armed"
                   /\ scoreRun.userFn = "pending"

============================================================================
